---- MODULE Spec2Model ----
(***************************************************************************)
(* Model of internal/artifacts/manager.go: the artifacts Manager.           *)
(*                                                                         *)
(* Callers (goroutines of the request handlers) run Get, GetTalosVersions,  *)
(* GetOfficialExtensions and GetExtensionImage concurrently.  Each          *)
(* operation is cut into steps at the points where another goroutine can    *)
(* interleave: a filesystem stat, a mutex acquisition, the DoChan call and  *)
(* the select on the result channel and the context.  A fetch started by    *)
(* DoChan runs in a goroutine of its own: it first returns from the fetch   *)
(* function (with its effect on the disk or the maps), then the             *)
(* singleflight group forgets the key and delivers the result.              *)
(***************************************************************************)
EXTENDS Integers, Sequences, FiniteSets, TLC

\* ------------------------------------------------------------------ bounds
NumCallers == 2     \* concurrent callers
MaxCalls == 2       \* calls started over the manager's lifetime

\* ------------------------------------------------------- program constants
\* options.TalosVersionRecheckInterval, in clock ticks
TalosVersionRecheckInterval == 2
\* options.MinVersion
MinVersion == <<1, 5, 0>>

Procs == 1..NumCallers

\* the clock runs for one recheck interval after construction
MaxTime == TalosVersionRecheckInterval

\* -------------------------------------------------------------- versions
\* A version string is modelled by what the parsers look at: an optional
\* leading "v" and the dot-separated numbers.
VStr(lead, nums) == [lead |-> lead, nums |-> nums]

\* semver.Parse: strict, exactly major.minor.patch and no prefix.
Parse(vs) ==
    IF vs.lead = "" /\ Len(vs.nums) = 3
    THEN [ok |-> TRUE, version |-> vs.nums]
    ELSE [ok |-> FALSE, version |-> <<0, 0, 0>>]

\* semver.ParseTolerant: strips a leading "v", pads missing minor and patch.
ParseTolerant(vs) ==
    IF Len(vs.nums) \in 1..3
    THEN [ok |-> TRUE,
          version |-> [i \in 1..3 |-> IF i <= Len(vs.nums) THEN vs.nums[i] ELSE 0]]
    ELSE [ok |-> FALSE, version |-> <<0, 0, 0>>]

\* A plausible slip: only the major number is compared.
LTMajorOnly(a, b) == a[1] < b[1]

\* semver.Version.LT
LT(a, b) ==
    \/ a[1] < b[1]
    \/ a[1] = b[1] /\ a[2] < b[2]
    \/ a[1] = b[1] /\ a[2] = b[2] /\ a[3] < b[3]

Digit(n) ==
    CASE n = 0 -> "0" [] n = 1 -> "1" [] n = 2 -> "2" [] n = 3 -> "3" [] n = 4 -> "4"
      [] n = 5 -> "5" [] n = 6 -> "6" [] n = 7 -> "7" [] n = 8 -> "8" [] n = 9 -> "9"

\* semver.Version.String
VersionString(v) == Digit(v[1]) \o "." \o Digit(v[2]) \o "." \o Digit(v[3])

\* tag := "v" + version.String()
TagOf(v) == "v" \o VersionString(v)

\* ----------------------------------------------------------------- paths
storagePath == "/tmp/image-service"
flavorsPath == storagePath \o "/flavors"

\* filepath.Join
Join(a, b) == a \o "/" \o b

ArtifactPath(tag, arch, kind) == Join(Join(Join(storagePath, tag), arch), kind)

TarballPath(arch, ref) == Join(storagePath, arch \o "-" \o ref.digest \o ".tar")

\* ---------------------------------------------------------------- inputs
Archs == {"amd64", "arm64"}
\* the kinds an installer image is extracted into
InstallerKinds == {"kernel"}

\* the arguments of the calls the callers make
GetArgs ==
    { [vs |-> VStr("", <<1, 4, 9>>), arch |-> "amd64", kind |-> "kernel"],
      [vs |-> VStr("v", <<1, 6, 0>>), arch |-> "amd64", kind |-> "kernel"],
      [vs |-> VStr("", <<1, 6, 0>>), arch |-> "amd64", kind |-> "kernel"],
      [vs |-> VStr("", <<1, 6, 0>>), arch |-> "arm64", kind |-> "cmdline"] }

ExtensionsArgs ==
    { [vs |-> vs] :
        vs \in {VStr("", <<1, 4, 9>>), VStr("v", <<1, 6>>), VStr("", <<1, 6, 0>>),
                VStr("", <<1, 7, 0>>), VStr("", <<>>)} }

\* versions around options.MinVersion
GateGetArgs ==
    { [vs |-> VStr("", <<1, 4, 9>>), arch |-> "amd64", kind |-> "kernel"],
      [vs |-> VStr("", <<1, 5, 0>>), arch |-> "amd64", kind |-> "kernel"],
      [vs |-> VStr("", <<0, 9, 9>>), arch |-> "arm64", kind |-> "kernel"] }

GateExtensionsArgs ==
    { [vs |-> VStr("v", <<1, 4>>)], [vs |-> VStr("", <<1, 4, 9>>)], [vs |-> VStr("", <<1, 5>>)] }

ExtensionRef(name, digest) == [name |-> name, digest |-> digest]

\* one call of each operation that goes to the coordinator
WaitGetArgs == { [vs |-> VStr("", <<1, 6, 0>>), arch |-> "amd64", kind |-> "kernel"] }
WaitExtensionsArgs == { [vs |-> VStr("", <<1, 6, 0>>)] }
WaitImageArgs == { [arch |-> "amd64", ref |-> ExtensionRef("gvisor", "sha256:aa")] }

ImageArgs ==
    { [arch |-> "amd64", ref |-> ExtensionRef("gvisor", "sha256:aa")],
      [arch |-> "amd64", ref |-> ExtensionRef("gvisor-alias", "sha256:aa")],
      [arch |-> "arm64", ref |-> ExtensionRef("gvisor", "sha256:aa")] }

NoArgs == [none |-> TRUE]

\* what the collaborators can answer
\* the releases the registry lists at a time: 1.6.0 is published one tick after
\* construction
VersionListAt(t) ==
    IF t <= TalosVersionRecheckInterval
    THEN <<<<1, 5, 0>>>>
    ELSE <<<<1, 5, 0>>, <<1, 6, 0>>>>

CatalogOf(tag) ==
    IF tag = "v1.6.0" THEN <<ExtensionRef("gvisor", "sha256:aa")>> ELSE <<>>

\* --------------------------------------------------------------- results
NoRet == [kind |-> "none", err |-> "", path |-> "", list |-> <<>>]
RetPath(p) == [kind |-> "ok", err |-> "", path |-> p, list |-> <<>>]
RetList(l) == [kind |-> "ok", err |-> "", path |-> "", list |-> l]
RetErr(e) == [kind |-> "err", err |-> e, path |-> "", list |-> <<>>]

ErrParse == "failed to parse version"
ErrVersionTooOld == "version is not supported"
ErrStat == "stat: no such file or directory"
ErrNotFound == "failed to find artifact"
ErrCancelled == "context canceled"
\* the error of the n-th execution of the fetch for a key
ErrFetch(key, n) == "fetch " \o key \o " #" \o Digit(n) \o " failed"


\* ----------------------------------------------------------------- state
VARIABLES
    disk,                    \* the paths that exist on disk
    sf,                      \* singleflight.Group: in-flight key -> call
    officialExtensionsMu,    \* holder of the mutex, 0 when free
    officialExtensions,      \* tag -> extension list
    talosVersionsMu,         \* holder of the mutex, 0 when free
    talosVersions,
    talosVersionsTimestamp,
    now,                     \* the clock
    pc, op, args,            \* per caller: position, operation, arguments
    closedAtCall,            \* history: per caller, the workspace was gone when it called
    ctxDone,                 \* per caller: its context is cancelled
    ch,                      \* per caller: the channel DoChan returned
    loc,                     \* per caller: local variables
    ret,                     \* per caller: what the call returned
    fetchCalls,              \* history: key -> invocations of the fetch function
    outcomes,                \* history: key -> results of the returned fetches
    seen,                    \* history: per caller, fetches returned when it missed
    joined,                  \* history: per caller, the execution it waits on
    ncalls                   \* history: calls started

shared == <<disk, sf, officialExtensionsMu, officialExtensions, talosVersionsMu,
            talosVersions, talosVersionsTimestamp, fetchCalls, outcomes>>
vars == <<disk, sf, officialExtensionsMu, officialExtensions, talosVersionsMu,
          talosVersions, talosVersionsTimestamp, now, pc, op, args, closedAtCall, ctxDone, ch,
          loc, ret, fetchCalls, outcomes, seen, joined, ncalls>>

\* the zero time.Time; the process starts long after it
ZeroTime == 0
StartTime == ZeroTime + TalosVersionRecheckInterval

NoChan == [key |-> "", exec |-> 0, state |-> "none", err |-> ""]
NoLoc == [tag |-> "", err |-> "", list |-> <<>>, ts |-> ZeroTime]

\* NewManager: the temporary directory with its flavors directory, empty maps
Init ==
    /\ disk = {storagePath, flavorsPath}
    /\ sf = <<>>
    /\ officialExtensionsMu = 0
    /\ officialExtensions = <<>>
    /\ talosVersionsMu = 0
    /\ talosVersions = <<>>
    /\ talosVersionsTimestamp = ZeroTime
    /\ now = StartTime
    /\ pc = [p \in Procs |-> "idle"]
    /\ op = [p \in Procs |-> "none"]
    /\ args = [p \in Procs |-> NoArgs]
    /\ closedAtCall = [p \in Procs |-> FALSE]
    /\ ctxDone = [p \in Procs |-> FALSE]
    /\ ch = [p \in Procs |-> NoChan]
    /\ loc = [p \in Procs |-> NoLoc]
    /\ ret = [p \in Procs |-> NoRet]
    /\ fetchCalls = <<>>
    /\ outcomes = <<>>
    /\ seen = [p \in Procs |-> 0]
    /\ joined = [p \in Procs |-> 0]
    /\ ncalls = 0

\* ------------------------------------------------------------- helpers
Put(f, k, v) == [x \in DOMAIN f \cup {k} |-> IF x = k THEN v ELSE f[x]]
Del(f, k) == [x \in DOMAIN f \ {k} |-> f[x]]
Calls(key) == IF key \in DOMAIN fetchCalls THEN fetchCalls[key] ELSE 0
Outcomes(key) == IF key \in DOMAIN outcomes THEN outcomes[key] ELSE <<>>

\* os.Stat succeeds
Exists(path) == path \in disk

\* A caller starts a call with a live context and a fresh frame.  Callers are
\* interchangeable: they are numbered in the order of their first calls.
Begin(p, o, a) ==
    /\ pc[p] \in {"idle", "done"}
    /\ \A q \in Procs : q < p => pc[q] # "idle"
    /\ ncalls < MaxCalls
    /\ ncalls' = ncalls + 1
    /\ op' = [op EXCEPT ![p] = o]
    /\ args' = [args EXCEPT ![p] = a]
    /\ closedAtCall' = [closedAtCall EXCEPT ![p] = ~Exists(storagePath)]
    /\ seen' = [seen EXCEPT ![p] = 0]
    /\ joined' = [joined EXCEPT ![p] = 0]

\* return from the call: the frame (locals, channel, context) is gone
Return(p, r) ==
    /\ pc' = [pc EXCEPT ![p] = "done"]
    /\ ret' = [ret EXCEPT ![p] = r]
    /\ loc' = [loc EXCEPT ![p] = NoLoc]
    /\ ch' = [ch EXCEPT ![p] = NoChan]
    /\ ctxDone' = [ctxDone EXCEPT ![p] = FALSE]

\* go on to the next statement of the call
Goto(p, label) == pc' = [pc EXCEPT ![p] = label]

\* A mutant: every DoChan starts an execution of its own.
DoChanNoCoalesce(p, key, fn, a) ==
    LET n == Calls(key) + 1 IN
    /\ sf' = Put(sf, key, [exec |-> n, fn |-> fn, arg |-> a, phase |-> "running", err |-> ""])
    /\ fetchCalls' = Put(fetchCalls, key, n)
    /\ ch' = [ch EXCEPT ![p] = [key |-> key, exec |-> n, state |-> "empty", err |-> ""]]
    /\ joined' = [joined EXCEPT ![p] = n]

\* m.sf.DoChan(key, fn): join the in-flight call of the key, or register a new
\* call and start its goroutine; either way hand back a fresh channel.
DoChan(p, key, fn, a) ==
    IF key \in DOMAIN sf
    THEN /\ ch' = [ch EXCEPT ![p] = [key |-> key, exec |-> sf[key].exec,
                                    state |-> "empty", err |-> ""]]
         /\ joined' = [joined EXCEPT ![p] = sf[key].exec]
         /\ UNCHANGED <<sf, fetchCalls>>
    ELSE LET n == Calls(key) + 1 IN
         /\ sf' = Put(sf, key, [exec |-> n, fn |-> fn, arg |-> a,
                                phase |-> "running", err |-> ""])
         /\ fetchCalls' = Put(fetchCalls, key, n)
         /\ ch' = [ch EXCEPT ![p] = [key |-> key, exec |-> n, state |-> "empty", err |-> ""]]
         /\ joined' = [joined EXCEPT ![p] = n]

\* ctx.Done() is ready
CtxDone(p) == ctxDone[p]
\* a result is ready on the caller's channel
ResultReady(p) == ch[p].state = "full"

\* A mutant: the caller that gives up also drops the call from the group.
SelectCancelledForget(p) ==
    /\ CtxDone(p)
    /\ Return(p, RetErr(ErrCancelled))
    /\ sf' = Del(sf, ch[p].key)
    /\ UNCHANGED <<disk, officialExtensionsMu, officialExtensions, talosVersionsMu,
                   talosVersions, talosVersionsTimestamp, fetchCalls, outcomes,
                   now, op, args, closedAtCall, seen, joined, ncalls>>

\* case <-ctx.Done(): return ctx.Err()  (lines 119-120, 153-154, 194-195, 220-221)
\* The channel is abandoned; the call stays in the group.
SelectCancelled(p) ==
    /\ CtxDone(p)
    /\ Return(p, RetErr(ErrCancelled))
    /\ UNCHANGED <<shared, now, op, args, closedAtCall, seen, joined, ncalls>>

\* ------------------------------------------------------------------ Get
\* the tag of a call's version argument, once it parsed
GetTag(a) == TagOf(Parse(a.vs).version)

\* Lines 96-105: parse, MinVersion gate, tag.
GetBegin(p, a) ==
    /\ Begin(p, "Get", a)
    /\ LET parsed == Parse(a.vs) IN
       IF ~parsed.ok
       THEN Return(p, RetErr(ErrParse))
       ELSE IF LT(parsed.version, MinVersion)
       THEN Return(p, RetErr(ErrVersionTooOld))
       ELSE /\ Goto(p, "get_stat")
            /\ loc' = [loc EXCEPT ![p] = [NoLoc EXCEPT !.tag = TagOf(parsed.version)]]
            /\ ret' = [ret EXCEPT ![p] = NoRet]
            /\ UNCHANGED <<ch, ctxDone>>
    /\ UNCHANGED <<shared, now>>

\* A mutant: the directory is never found, every call goes to the coordinator.
GetStatAlwaysMiss(p) ==
    /\ pc[p] = "get_stat"
    /\ Goto(p, "get_dochan")
    /\ loc' = [loc EXCEPT ![p].err = ErrStat]
    /\ seen' = [seen EXCEPT ![p] = Len(Outcomes(loc[p].tag))]
    /\ UNCHANGED <<shared, now, op, args, closedAtCall, ctxDone, ch, ret, joined, ncalls>>

\* Line 108: os.Stat of the tag directory.
GetStat(p) ==
    /\ pc[p] = "get_stat"
    /\ IF Exists(Join(storagePath, loc[p].tag))
       THEN /\ Goto(p, "get_statfile")
            /\ UNCHANGED <<loc, seen>>
       ELSE /\ Goto(p, "get_dochan")
            /\ loc' = [loc EXCEPT ![p].err = ErrStat]
            /\ seen' = [seen EXCEPT ![p] = Len(Outcomes(loc[p].tag))]
    /\ UNCHANGED <<shared, now, op, args, closedAtCall, ctxDone, ch, ret, joined, ncalls>>

\* Lines 109-111: DoChan(tag, fetchImager).
GetDoChan(p) ==
    /\ pc[p] = "get_dochan"
    /\ DoChan(p, loc[p].tag, "fetchImager", [tag |-> loc[p].tag])
    /\ Goto(p, "get_select")
    /\ UNCHANGED <<disk, officialExtensionsMu, officialExtensions, talosVersionsMu,
                   talosVersions, talosVersionsTimestamp, outcomes, now,
                   op, args, closedAtCall, ctxDone, loc, ret, seen, ncalls>>

\* Lines 115-118: the result arrived; on failure Get returns err, the variable
\* that still holds the error of os.Stat.
GetResult(p) ==
    /\ pc[p] = "get_select"
    /\ ResultReady(p)
    /\ IF ch[p].err # ""
       THEN Return(p, RetErr(loc[p].err))
       ELSE /\ Goto(p, "get_statfile")
            /\ ch' = [ch EXCEPT ![p] = NoChan]
            /\ UNCHANGED <<ret, loc, ctxDone>>
    /\ UNCHANGED <<shared, now, op, args, closedAtCall, seen, joined, ncalls>>

\* Lines 119-120: the context is done.
GetCancelled(p) ==
    /\ pc[p] = "get_select"
    /\ SelectCancelled(p)

\* A mutant: the path is returned without the os.Stat of the file.
GetStatFileNoCheck(p) ==
    /\ pc[p] = "get_statfile"
    /\ Return(p, RetPath(ArtifactPath(loc[p].tag, args[p].arch, args[p].kind)))
    /\ UNCHANGED <<shared, now, op, args, closedAtCall, seen, joined, ncalls>>

\* Lines 125-132: os.Stat of the artifact file.
GetStatFile(p) ==
    /\ pc[p] = "get_statfile"
    /\ LET path == ArtifactPath(loc[p].tag, args[p].arch, args[p].kind) IN
       IF Exists(path) THEN Return(p, RetPath(path)) ELSE Return(p, RetErr(ErrNotFound))
    /\ UNCHANGED <<shared, now, op, args, closedAtCall, seen, joined, ncalls>>

\* ----------------------------------------------------- GetTalosVersions
TalosVersionsKey == "talos-versions"

\* Line 141: the call.
VersionsBegin(p) ==
    /\ Begin(p, "GetTalosVersions", NoArgs)
    /\ Goto(p, "tv_lock")
    /\ ret' = [ret EXCEPT ![p] = NoRet]
    /\ UNCHANGED <<shared, now, loc, ch, ctxDone>>

\* Line 142: talosVersionsMu.Lock().
VersionsLock(p) ==
    /\ pc[p] = "tv_lock"
    /\ talosVersionsMu = 0
    /\ talosVersionsMu' = p
    /\ Goto(p, "tv_read")
    /\ UNCHANGED <<disk, sf, officialExtensionsMu, officialExtensions, talosVersions,
                   talosVersionsTimestamp, fetchCalls, outcomes, now, op, args, closedAtCall, ctxDone,
                   ch, loc, ret, seen, joined, ncalls>>

\* A mutant: the Unlock() is missing, the mutex is held across the wait.
VersionsReadKeepLock(p) ==
    /\ pc[p] = "tv_read"
    /\ loc' = [loc EXCEPT ![p].list = talosVersions, ![p].ts = talosVersionsTimestamp]
    /\ seen' = [seen EXCEPT ![p] = Len(Outcomes(TalosVersionsKey))]
    /\ Goto(p, "tv_check")
    /\ UNCHANGED <<disk, sf, officialExtensionsMu, officialExtensions, talosVersionsMu,
                   talosVersions, talosVersionsTimestamp, fetchCalls, outcomes, now,
                   op, args, closedAtCall, ctxDone, ch, ret, joined, ncalls>>

\* Lines 143-144: copy the snapshot and its timestamp, Unlock().
VersionsRead(p) ==
    /\ pc[p] = "tv_read"
    /\ loc' = [loc EXCEPT ![p].list = talosVersions, ![p].ts = talosVersionsTimestamp]
    /\ seen' = [seen EXCEPT ![p] = Len(Outcomes(TalosVersionsKey))]
    /\ talosVersionsMu' = 0
    /\ Goto(p, "tv_check")
    /\ UNCHANGED <<disk, sf, officialExtensionsMu, officialExtensions, talosVersions,
                   talosVersionsTimestamp, fetchCalls, outcomes, now, op, args, closedAtCall, ctxDone,
                   ch, ret, joined, ncalls>>

\* A mutant: the comparison is turned around.
FreshInverted(timestamp) == now - timestamp > TalosVersionRecheckInterval

\* Line 146: time.Since(timestamp) < m.options.TalosVersionRecheckInterval
Fresh(timestamp) == now - timestamp < TalosVersionRecheckInterval

\* Lines 146-148: a fresh snapshot is returned as it was read.
VersionsCheck(p) ==
    /\ pc[p] = "tv_check"
    /\ IF Fresh(loc[p].ts)
       THEN Return(p, RetList(loc[p].list))
       ELSE /\ Goto(p, "tv_dochan")
            /\ UNCHANGED <<ret, loc, ch, ctxDone>>
    /\ UNCHANGED <<shared, now, op, args, closedAtCall, seen, joined, ncalls>>

\* Line 150: DoChan("talos-versions", m.fetchTalosVersions).
VersionsDoChan(p) ==
    /\ pc[p] = "tv_dochan"
    /\ DoChan(p, TalosVersionsKey, "fetchTalosVersions", NoArgs)
    /\ Goto(p, "tv_select")
    /\ UNCHANGED <<disk, officialExtensionsMu, officialExtensions, talosVersionsMu,
                   talosVersions, talosVersionsTimestamp, outcomes, now,
                   op, args, closedAtCall, ctxDone, loc, ret, seen, ncalls>>

\* Lines 153-154: the context is done.
VersionsCancelled(p) ==
    /\ pc[p] = "tv_select"
    /\ SelectCancelled(p)

\* A mutant: the error of the result is dropped.
SelectResultIgnoreErr(p, next) ==
    /\ ResultReady(p)
    /\ Goto(p, next)
    /\ ch' = [ch EXCEPT ![p] = NoChan]
    /\ UNCHANGED <<ret, loc, ctxDone>>

\* case result := <-resultCh: if result.Err != nil { return nil, result.Err }
\* (lines 155-158, 196-199 and 222-225)
SelectResult(p, next) ==
    /\ ResultReady(p)
    /\ IF ch[p].err # ""
       THEN Return(p, RetErr(ch[p].err))
       ELSE /\ Goto(p, next)
            /\ ch' = [ch EXCEPT ![p] = NoChan]
            /\ UNCHANGED <<ret, loc, ctxDone>>

\* Lines 155-158: the result arrived.
VersionsResult(p) ==
    /\ pc[p] = "tv_select"
    /\ SelectResult(p, "tv_relock")
    /\ UNCHANGED <<shared, now, op, args, closedAtCall, seen, joined, ncalls>>

\* Line 161: talosVersionsMu.Lock().
VersionsRelock(p) ==
    /\ pc[p] = "tv_relock"
    /\ talosVersionsMu = 0
    /\ talosVersionsMu' = p
    /\ Goto(p, "tv_reread")
    /\ UNCHANGED <<disk, sf, officialExtensionsMu, officialExtensions, talosVersions,
                   talosVersionsTimestamp, fetchCalls, outcomes, now, op, args, closedAtCall, ctxDone,
                   ch, loc, ret, seen, joined, ncalls>>

\* Lines 162-165: read the refreshed snapshot, Unlock(), return it.
VersionsReread(p) ==
    /\ pc[p] = "tv_reread"
    /\ talosVersionsMu' = 0
    /\ Return(p, RetList(talosVersions))
    /\ UNCHANGED <<disk, sf, officialExtensionsMu, officialExtensions, talosVersions,
                   talosVersionsTimestamp, fetchCalls, outcomes, now, op, args, closedAtCall,
                   seen, joined, ncalls>>

\* ------------------------------------------------ GetOfficialExtensions
ExtensionsTag(a) == TagOf(ParseTolerant(a.vs).version)
\* A mutant: the catalog fetch is keyed by the bare tag.
ExtensionsKeyBareTag(tag) == tag

\* line 189: "extensions-"+tag
ExtensionsKey(tag) == "extensions-" \o tag

\* Lines 170-179: tolerant parse, MinVersion gate, tag.
ExtensionsBegin(p, a) ==
    /\ Begin(p, "GetOfficialExtensions", a)
    /\ LET parsed == ParseTolerant(a.vs) IN
       IF ~parsed.ok
       THEN Return(p, RetErr(ErrParse))
       ELSE IF LT(parsed.version, MinVersion)
       THEN Return(p, RetErr(ErrVersionTooOld))
       ELSE /\ Goto(p, "ext_lock")
            /\ loc' = [loc EXCEPT ![p] = [NoLoc EXCEPT !.tag = TagOf(parsed.version)]]
            /\ ret' = [ret EXCEPT ![p] = NoRet]
            /\ UNCHANGED <<ch, ctxDone>>
    /\ UNCHANGED <<shared, now>>

\* Line 181: officialExtensionsMu.Lock().
ExtensionsLock(p) ==
    /\ pc[p] = "ext_lock"
    /\ officialExtensionsMu = 0
    /\ officialExtensionsMu' = p
    /\ Goto(p, "ext_lookup")
    /\ UNCHANGED <<disk, sf, officialExtensions, talosVersionsMu, talosVersions,
                   talosVersionsTimestamp, fetchCalls, outcomes, now, op, args, closedAtCall, ctxDone,
                   ch, loc, ret, seen, joined, ncalls>>

\* A mutant: a tag whose fetch failed is remembered as having no extensions.
ExtensionsLookupNegativeCache(p) ==
    /\ pc[p] = "ext_lookup"
    /\ officialExtensionsMu' = 0
    /\ IF loc[p].tag \in DOMAIN officialExtensions
       THEN Return(p, RetList(officialExtensions[loc[p].tag])) /\ UNCHANGED seen
       ELSE IF Len(Outcomes(ExtensionsKey(loc[p].tag))) > 0
       THEN Return(p, RetList(<<>>)) /\ UNCHANGED seen
       ELSE /\ Goto(p, "ext_dochan")
            /\ seen' = [seen EXCEPT ![p] = Len(Outcomes(ExtensionsKey(loc[p].tag)))]
            /\ UNCHANGED <<ret, loc, ch, ctxDone>>
    /\ UNCHANGED <<disk, sf, officialExtensions, talosVersionsMu, talosVersions,
                   talosVersionsTimestamp, fetchCalls, outcomes, now, op, args, closedAtCall,
                   joined, ncalls>>

\* Lines 182-187: look the tag up, Unlock(), return the entry on a hit.
ExtensionsLookup(p) ==
    /\ pc[p] = "ext_lookup"
    /\ officialExtensionsMu' = 0
    /\ IF loc[p].tag \in DOMAIN officialExtensions
       THEN Return(p, RetList(officialExtensions[loc[p].tag])) /\ UNCHANGED seen
       ELSE /\ Goto(p, "ext_dochan")
            /\ seen' = [seen EXCEPT ![p] = Len(Outcomes(ExtensionsKey(loc[p].tag)))]
            /\ UNCHANGED <<ret, loc, ch, ctxDone>>
    /\ UNCHANGED <<disk, sf, officialExtensions, talosVersionsMu, talosVersions,
                   talosVersionsTimestamp, fetchCalls, outcomes, now, op, args, closedAtCall,
                   joined, ncalls>>

\* Lines 189-191: DoChan("extensions-"+tag, fetchOfficialExtensions).
ExtensionsDoChan(p) ==
    /\ pc[p] = "ext_dochan"
    /\ DoChan(p, ExtensionsKey(loc[p].tag), "fetchOfficialExtensions", [tag |-> loc[p].tag])
    /\ Goto(p, "ext_select")
    /\ UNCHANGED <<disk, officialExtensionsMu, officialExtensions, talosVersionsMu,
                   talosVersions, talosVersionsTimestamp, outcomes, now,
                   op, args, closedAtCall, ctxDone, loc, ret, seen, ncalls>>

\* Lines 194-195: the context is done.
ExtensionsCancelled(p) ==
    /\ pc[p] = "ext_select"
    /\ SelectCancelled(p)

\* Lines 196-199: the result arrived.
ExtensionsResult(p) ==
    /\ pc[p] = "ext_select"
    /\ SelectResult(p, "ext_relock")
    /\ UNCHANGED <<shared, now, op, args, closedAtCall, seen, joined, ncalls>>

\* Line 202: officialExtensionsMu.Lock().
ExtensionsRelock(p) ==
    /\ pc[p] = "ext_relock"
    /\ officialExtensionsMu = 0
    /\ officialExtensionsMu' = p
    /\ Goto(p, "ext_reread")
    /\ UNCHANGED <<disk, sf, officialExtensions, talosVersionsMu, talosVersions,
                   talosVersionsTimestamp, fetchCalls, outcomes, now, op, args, closedAtCall, ctxDone,
                   ch, loc, ret, seen, joined, ncalls>>

\* A mutant: the map is not read again, the value of the first lookup is returned.
ExtensionsRereadStale(p) ==
    /\ pc[p] = "ext_reread"
    /\ officialExtensionsMu' = 0
    /\ Return(p, RetList(loc[p].list))
    /\ UNCHANGED <<disk, sf, officialExtensions, talosVersionsMu, talosVersions,
                   talosVersionsTimestamp, fetchCalls, outcomes, now, op, args,
                   closedAtCall, seen, joined, ncalls>>

\* Lines 203-206: read the entry (nil when there is none), Unlock(), return it.
ExtensionsReread(p) ==
    /\ pc[p] = "ext_reread"
    /\ officialExtensionsMu' = 0
    /\ Return(p, RetList(IF loc[p].tag \in DOMAIN officialExtensions
                         THEN officialExtensions[loc[p].tag] ELSE <<>>))
    /\ UNCHANGED <<disk, sf, officialExtensions, talosVersionsMu, talosVersions,
                   talosVersionsTimestamp, fetchCalls, outcomes, now, op, args, closedAtCall,
                   seen, joined, ncalls>>

\* ---------------------------------------------------- GetExtensionImage
\* Lines 210-211: the call and the tarball path.
ImageBegin(p, a) ==
    /\ Begin(p, "GetExtensionImage", a)
    /\ Goto(p, "img_stat")
    /\ loc' = [loc EXCEPT ![p] = [NoLoc EXCEPT !.tag = TarballPath(a.arch, a.ref)]]
    /\ ret' = [ret EXCEPT ![p] = NoRet]
    /\ UNCHANGED <<shared, now, ch, ctxDone>>

\* A mutant: the context is looked at before the os.Stat of the tarball.
ImageStatContextFirst(p) ==
    /\ pc[p] = "img_stat"
    /\ IF CtxDone(p)
       THEN Return(p, RetErr(ErrCancelled)) /\ UNCHANGED seen
       ELSE IF Exists(loc[p].tag)
       THEN Return(p, RetPath(loc[p].tag)) /\ UNCHANGED seen
       ELSE /\ Goto(p, "img_dochan")
            /\ seen' = [seen EXCEPT ![p] = Len(Outcomes(loc[p].tag))]
            /\ UNCHANGED <<ret, loc, ch, ctxDone>>
    /\ UNCHANGED <<shared, now, op, args, closedAtCall, joined, ncalls>>

\* Line 214 (and 229): os.Stat of the tarball.
ImageStat(p) ==
    /\ pc[p] = "img_stat"
    /\ IF Exists(loc[p].tag)
       THEN Return(p, RetPath(loc[p].tag)) /\ UNCHANGED seen
       ELSE /\ Goto(p, "img_dochan")
            /\ seen' = [seen EXCEPT ![p] = Len(Outcomes(loc[p].tag))]
            /\ UNCHANGED <<ret, loc, ch, ctxDone>>
    /\ UNCHANGED <<shared, now, op, args, closedAtCall, joined, ncalls>>

\* Lines 215-217: DoChan(tarballPath, fetchExtensionImage).
ImageDoChan(p) ==
    /\ pc[p] = "img_dochan"
    /\ DoChan(p, loc[p].tag, "fetchExtensionImage",
              [arch |-> args[p].arch, ref |-> args[p].ref, path |-> loc[p].tag])
    /\ Goto(p, "img_select")
    /\ UNCHANGED <<disk, officialExtensionsMu, officialExtensions, talosVersionsMu,
                   talosVersions, talosVersionsTimestamp, outcomes, now,
                   op, args, closedAtCall, ctxDone, loc, ret, seen, ncalls>>

\* Lines 220-221: the context is done.
ImageCancelled(p) ==
    /\ pc[p] = "img_select"
    /\ SelectCancelled(p)

\* Lines 222-225: the result arrived.
ImageResult(p) ==
    /\ pc[p] = "img_select"
    /\ SelectResult(p, "img_return")
    /\ UNCHANGED <<shared, now, op, args, closedAtCall, seen, joined, ncalls>>

\* Line 229: return tarballPath, nil.
ImageReturn(p) ==
    /\ pc[p] = "img_return"
    /\ Return(p, RetPath(loc[p].tag))
    /\ UNCHANGED <<shared, now, op, args, closedAtCall, seen, joined, ncalls>>

\* ------------------------------------------------- the fetch goroutines
Running(key, fn) == key \in DOMAIN sf /\ sf[key].fn = fn /\ sf[key].phase = "running"

\* the fetch function of the call returned err ("" for nil)
FnReturned(key, err) ==
    /\ sf' = [sf EXCEPT ![key].phase = "returned", ![key].err = err]
    /\ outcomes' = Put(outcomes, key,
                       Append(Outcomes(key), IF err = "" THEN "ok" ELSE "err"))

\* what a successful extraction of the installer image leaves under the tag
InstallerTree(tag) ==
    {Join(storagePath, tag)}
        \cup {Join(Join(storagePath, tag), a) : a \in Archs}
        \cup {ArtifactPath(tag, a, k) : a \in Archs, k \in InstallerKinds}

\* fetchImager(tag): on success the whole tree of the tag appears at once; it
\* fails when the registry fails or when the workspace is gone.
fetchImager(key, ok) ==
    /\ Running(key, "fetchImager")
    /\ IF ok /\ Exists(storagePath)
       THEN disk' = disk \cup InstallerTree(sf[key].arg.tag) /\ FnReturned(key, "")
       ELSE UNCHANGED disk /\ FnReturned(key, ErrFetch(key, sf[key].exec))
    /\ UNCHANGED <<officialExtensionsMu, officialExtensions, talosVersionsMu, talosVersions,
                   talosVersionsTimestamp, fetchCalls, now, pc, op, args, closedAtCall, ctxDone, ch,
                   loc, ret, seen, joined, ncalls>>

\* fetchTalosVersions: on success the new list and the time of the refresh
\* replace the snapshot under the mutex; a failed listing leaves both alone.
fetchTalosVersions(key, ok) ==
    /\ Running(key, "fetchTalosVersions")
    /\ IF ok
       THEN /\ talosVersionsMu = 0
            /\ talosVersions' = VersionListAt(now)
            /\ talosVersionsTimestamp' = now
            /\ FnReturned(key, "")
       ELSE /\ UNCHANGED <<talosVersions, talosVersionsTimestamp>>
            /\ FnReturned(key, ErrFetch(key, sf[key].exec))
    /\ UNCHANGED <<disk, officialExtensionsMu, officialExtensions, talosVersionsMu,
                   fetchCalls, now, pc, op, args, closedAtCall, ctxDone, ch, loc, ret, seen, joined,
                   ncalls>>

\* fetchOfficialExtensions(tag): on success the catalog of the tag is stored in
\* the map under the mutex; a failed fetch stores nothing.
fetchOfficialExtensions(key, ok) ==
    /\ Running(key, "fetchOfficialExtensions")
    /\ IF ok
       THEN /\ officialExtensionsMu = 0
            /\ officialExtensions' =
                   Put(officialExtensions, sf[key].arg.tag, CatalogOf(sf[key].arg.tag))
            /\ FnReturned(key, "")
       ELSE /\ UNCHANGED officialExtensions
            /\ FnReturned(key, ErrFetch(key, sf[key].exec))
    /\ UNCHANGED <<disk, officialExtensionsMu, talosVersionsMu, talosVersions,
                   talosVersionsTimestamp, fetchCalls, now, pc, op, args, closedAtCall, ctxDone, ch,
                   loc, ret, seen, joined, ncalls>>

\* fetchExtensionImage(arch, ref, tarballPath): on success the exported tarball
\* is at the path; it fails when the registry fails or the workspace is gone.
fetchExtensionImage(key, ok) ==
    /\ Running(key, "fetchExtensionImage")
    /\ IF ok /\ Exists(storagePath)
       THEN disk' = disk \cup {sf[key].arg.path} /\ FnReturned(key, "")
       ELSE UNCHANGED disk /\ FnReturned(key, ErrFetch(key, sf[key].exec))
    /\ UNCHANGED <<officialExtensionsMu, officialExtensions, talosVersionsMu, talosVersions,
                   talosVersionsTimestamp, fetchCalls, now, pc, op, args, closedAtCall, ctxDone, ch,
                   loc, ret, seen, joined, ncalls>>

\* A mutant: the result reaches only one of the waiting channels.
DoCallCompleteOneWaiter(key) ==
    /\ key \in DOMAIN sf
    /\ sf[key].phase = "returned"
    /\ sf' = Del(sf, key)
    /\ LET waiting == {p \in Procs : ch[p].state = "empty" /\ ch[p].key = key
                                     /\ ch[p].exec = sf[key].exec}
           first == IF waiting = {} THEN 0 ELSE CHOOSE p \in waiting : \A q \in waiting : p <= q
       IN ch' = [p \in Procs |-> IF p = first
                                  THEN [ch[p] EXCEPT !.state = "full", !.err = sf[key].err]
                                  ELSE ch[p]]
    /\ UNCHANGED <<disk, officialExtensionsMu, officialExtensions, talosVersionsMu,
                   talosVersions, talosVersionsTimestamp, fetchCalls, outcomes, now,
                   pc, op, args, closedAtCall, ctxDone, loc, ret, seen, joined, ncalls>>

\* singleflight's doCall after the function returned: under the group's mutex
\* the key is forgotten and the result is sent on every channel of the call.
DoCallComplete(key) ==
    /\ key \in DOMAIN sf
    /\ sf[key].phase = "returned"
    /\ sf' = Del(sf, key)
    /\ ch' = [p \in Procs |->
                IF ch[p].state = "empty" /\ ch[p].key = key /\ ch[p].exec = sf[key].exec
                THEN [ch[p] EXCEPT !.state = "full", !.err = sf[key].err]
                ELSE ch[p]]
    /\ UNCHANGED <<disk, officialExtensionsMu, officialExtensions, talosVersionsMu,
                   talosVersions, talosVersionsTimestamp, fetchCalls, outcomes, now,
                   pc, op, args, closedAtCall, ctxDone, loc, ret, seen, joined, ncalls>>

\* ------------------------------------------------------ the environment
\* The caller's context is cancelled while its call is running.
CancelCtx(p) ==
    /\ pc[p] \notin {"idle", "done"}
    /\ ~ctxDone[p]
    /\ ctxDone' = [ctxDone EXCEPT ![p] = TRUE]
    /\ UNCHANGED <<shared, now, pc, op, args, closedAtCall, ch, loc, ret, seen, joined, ncalls>>

\* Time passes.
Tick ==
    /\ now < StartTime + MaxTime
    /\ now' = now + 1
    /\ UNCHANGED <<shared, pc, op, args, closedAtCall, ctxDone, ch, loc, ret, seen, joined, ncalls>>

\* A mutant: only the root entry goes, what was below it stays reachable.
CloseRootOnly ==
    /\ Exists(storagePath)
    /\ disk' = disk \ {storagePath}
    /\ UNCHANGED <<sf, officialExtensionsMu, officialExtensions, talosVersionsMu,
                   talosVersions, talosVersionsTimestamp, fetchCalls, outcomes, now,
                   pc, op, args, closedAtCall, ctxDone, ch, loc, ret, seen, joined, ncalls>>

\* Close: os.RemoveAll(m.storagePath); every path of the model is below it.
Close ==
    /\ Exists(storagePath)
    /\ disk' = {}
    /\ UNCHANGED <<sf, officialExtensionsMu, officialExtensions, talosVersionsMu,
                   talosVersions, talosVersionsTimestamp, fetchCalls, outcomes, now,
                   pc, op, args, closedAtCall, ctxDone, ch, loc, ret, seen, joined, ncalls>>

\* ------------------------------------------------------- specifications
Keys == DOMAIN sf

GetRun ==
    \/ \E p \in Procs : GetStat(p)
    \/ \E p \in Procs : GetDoChan(p)
    \/ \E p \in Procs : GetResult(p)
    \/ \E p \in Procs : GetCancelled(p)
    \/ \E p \in Procs : GetStatFile(p)
    \/ \E key \in Keys, failed \in BOOLEAN : fetchImager(key, ~failed)

GetSteps ==
    \/ \E p \in Procs, a \in GetArgs : GetBegin(p, a)
    \/ GetRun

VersionsRun ==
    \/ \E p \in Procs : VersionsLock(p)
    \/ \E p \in Procs : VersionsRead(p)
    \/ \E p \in Procs : VersionsCheck(p)
    \/ \E p \in Procs : VersionsDoChan(p)
    \/ \E p \in Procs : VersionsCancelled(p)
    \/ \E p \in Procs : VersionsResult(p)
    \/ \E p \in Procs : VersionsRelock(p)
    \/ \E p \in Procs : VersionsReread(p)
    \/ \E key \in Keys, failed \in BOOLEAN : fetchTalosVersions(key, ~failed)

VersionsSteps ==
    \/ \E p \in Procs : VersionsBegin(p)
    \/ VersionsRun
    \/ Tick

ExtensionsRun ==
    \/ \E p \in Procs : ExtensionsLock(p)
    \/ \E p \in Procs : ExtensionsLookup(p)
    \/ \E p \in Procs : ExtensionsDoChan(p)
    \/ \E p \in Procs : ExtensionsCancelled(p)
    \/ \E p \in Procs : ExtensionsResult(p)
    \/ \E p \in Procs : ExtensionsRelock(p)
    \/ \E p \in Procs : ExtensionsReread(p)
    \/ \E key \in Keys, failed \in BOOLEAN : fetchOfficialExtensions(key, ~failed)

ExtensionsSteps ==
    \/ \E p \in Procs, a \in ExtensionsArgs : ExtensionsBegin(p, a)
    \/ ExtensionsRun

ImageRun ==
    \/ \E p \in Procs : ImageStat(p)
    \/ \E p \in Procs : ImageDoChan(p)
    \/ \E p \in Procs : ImageCancelled(p)
    \/ \E p \in Procs : ImageResult(p)
    \/ \E p \in Procs : ImageReturn(p)
    \/ \E key \in Keys, failed \in BOOLEAN : fetchExtensionImage(key, ~failed)

ImageSteps ==
    \/ \E p \in Procs, a \in ImageArgs : ImageBegin(p, a)
    \/ ImageRun

CommonSteps ==
    \/ \E key \in Keys : DoCallComplete(key)
    \/ \E p \in Procs : CancelCtx(p)

\* the whole manager
Next == GetSteps \/ VersionsSteps \/ ExtensionsSteps \/ ImageSteps \/ CommonSteps \/ Close
Spec == Init /\ [][Next]_vars

\* the installer artifact cache alone
NextGet == GetSteps \/ CommonSteps \/ Close
SpecGet == Init /\ [][NextGet]_vars

\* the version list cache alone
NextVersions == VersionsSteps \/ CommonSteps
SpecVersions == Init /\ [][NextVersions]_vars

\* the extension catalog cache alone
NextExtensions == ExtensionsSteps \/ CommonSteps
SpecExtensions == Init /\ [][NextExtensions]_vars

\* the extension image cache alone
NextImage == ImageSteps \/ CommonSteps \/ Close
SpecImage == Init /\ [][NextImage]_vars


\* the four operations on the one coordinator, each called with one input that
\* misses its cache; the clock stands still and the manager is not closed
WaitSteps ==
    \/ \E p \in Procs, a \in WaitGetArgs : GetBegin(p, a)
    \/ \E p \in Procs : VersionsBegin(p)
    \/ \E p \in Procs, a \in WaitExtensionsArgs : ExtensionsBegin(p, a)
    \/ \E p \in Procs, a \in WaitImageArgs : ImageBegin(p, a)
NextWait ==
    WaitSteps \/ GetRun \/ VersionsRun \/ ExtensionsRun \/ ImageRun \/ CommonSteps
SpecWait == Init /\ [][NextWait]_vars

\* every step a caller takes inside a call
CallerStep(p) ==
    \/ GetStat(p) \/ GetDoChan(p) \/ GetResult(p) \/ GetCancelled(p) \/ GetStatFile(p)
    \/ VersionsLock(p) \/ VersionsRead(p) \/ VersionsCheck(p) \/ VersionsDoChan(p)
    \/ VersionsCancelled(p) \/ VersionsResult(p) \/ VersionsRelock(p) \/ VersionsReread(p)
    \/ ExtensionsLock(p) \/ ExtensionsLookup(p) \/ ExtensionsDoChan(p)
    \/ ExtensionsCancelled(p) \/ ExtensionsResult(p) \/ ExtensionsRelock(p)
    \/ ExtensionsReread(p)
    \/ ImageStat(p) \/ ImageDoChan(p) \/ ImageCancelled(p) \/ ImageResult(p)
    \/ ImageReturn(p)

\* the same manager under the Go scheduler: a goroutine that can run does run,
\* the callers' and the one in which singleflight hands out the result of a
\* function that has returned.  Nothing is assumed of how long a fetch takes
\* or of when a context is cancelled.
SpecLive ==
    /\ Init /\ [][NextWait]_vars
    /\ \A p \in Procs : WF_vars(CallerStep(p))
    /\ WF_vars(\E key \in Keys : DoCallComplete(key))

\* the two operations that take a version, Get and GetOfficialExtensions, called
\* with versions around options.MinVersion
GateSteps ==
    \/ \E p \in Procs, a \in GateGetArgs : GetBegin(p, a)
    \/ \E p \in Procs, a \in GateExtensionsArgs : ExtensionsBegin(p, a)
NextGate == GateSteps \/ GetRun \/ ExtensionsRun \/ CommonSteps \/ Close
SpecGate == Init /\ [][NextGate]_vars

\* ---------------------------------------------------------------- claims
\* the coordinator key of a call that passed its checks
CallKey(p) ==
    CASE op[p] = "Get" -> GetTag(args[p])
      [] op[p] = "GetTalosVersions" -> TalosVersionsKey
      [] op[p] = "GetOfficialExtensions" -> ExtensionsKey(ExtensionsTag(args[p]))
      [] op[p] = "GetExtensionImage" -> TarballPath(args[p].arch, args[p].ref)
      [] OTHER -> ""

\* the call of p waited on an execution
Entered(p) == joined[p] # 0
\* the call of p returned r
Returned(p, r) == pc[p] = "done" /\ ret[p] = r
\* the call of p returned, and not because its context was cancelled
ReturnedUncancelled(p) == pc[p] = "done" /\ ret[p] # RetErr(ErrCancelled)
\* the execution the call of p waited on returned "ok" or "err"
ExecutionEnded(p, how) ==
    /\ Entered(p)
    /\ Len(Outcomes(CallKey(p))) >= joined[p]
    /\ Outcomes(CallKey(p))[joined[p]] = how

\* C1: concurrent Get callers that found the same (version, architecture, kind)
\* uncached at the same point of the tag's fetch history all wait on one
\* execution of fetchImager, and those that return uncancelled all succeed or
\* all fail.
C1_OneFetchForConcurrentGets ==
    \A p, q \in Procs :
        (/\ op[p] = "Get" /\ op[q] = "Get"
         /\ args[p] = args[q]
         /\ Entered(p) /\ Entered(q)
         /\ seen[p] = seen[q])
        => /\ joined[p] = joined[q]
           /\ (ReturnedUncancelled(p) /\ ReturnedUncancelled(q))
                  => ret[p].kind = ret[q].kind

\* C2: a Get whose coordinated fetch failed returns the error of that fetch.
C2_GetReturnsFetchError ==
    \A p \in Procs :
        (op[p] = "Get" /\ ExecutionEnded(p, "err") /\ ReturnedUncancelled(p))
        => ret[p] = RetErr(ErrFetch(CallKey(p), joined[p]))

\* the order of versions, spelled out for the claims
Below(v, w) ==
    \E i \in 1..3 : v[i] < w[i] /\ \A j \in 1..(i - 1) : v[j] = w[j]

\* the call of p has a version argument that its parser accepts and that is
\* below options.MinVersion
TooOld(p) ==
    \/ /\ op[p] = "Get"
       /\ args[p].vs.lead = "" /\ Len(args[p].vs.nums) = 3
       /\ Below(args[p].vs.nums, MinVersion)
    \/ /\ op[p] = "GetOfficialExtensions"
       /\ Len(args[p].vs.nums) \in 1..3
       /\ Below([i \in 1..3 |-> IF i <= Len(args[p].vs.nums) THEN args[p].vs.nums[i] ELSE 0],
                MinVersion)

\* the positions of a call: none of them is held by a call that returned at once
InCall(p) == pc[p] \notin {"idle", "done"}

C3_TooOldState ==
    \A p \in Procs :
        TooOld(p) => /\ Returned(p, RetErr(ErrVersionTooOld))
                     /\ ~Entered(p)
                     /\ ch[p] = NoChan

\* a call begins and returns in the same step
C3_ImmediateReturn ==
    /\ ncalls' = ncalls + 1
    /\ \A p \in Procs : InCall(p)' => InCall(p)

\* C3: a call of Get or GetOfficialExtensions with a version below MinVersion
\* returns VersionTooOld in its first step, never takes a position at a stat,
\* a lock, the coordinator or a wait, and its step changes nothing of the disk,
\* the coordinator, the maps or the fetch counts.
C3_TooOldRejectedWithoutIO ==
    /\ []C3_TooOldState
    /\ [][C3_ImmediateReturn => UNCHANGED shared]_vars

C3_Witness ==
    \E p, q \in Procs :
        /\ op[p] = "Get" /\ TooOld(p) /\ Returned(p, RetErr(ErrVersionTooOld))
        /\ op[q] = "GetOfficialExtensions" /\ TooOld(q)
        /\ Returned(q, RetErr(ErrVersionTooOld))
        /\ fetchCalls = <<>> /\ DOMAIN sf = {}

\* the wait of each operation
Selects == {"get_select", "tv_select", "ext_select", "img_select"}
\* p waits on a channel that has not been served yet
Waiting(p) == ch[p].state = "empty"

\* the step in which the wait of p ends with the cancellation of its context
CancelledStep(p) ==
    /\ pc[p] \in Selects
    /\ pc'[p] = "done"
    /\ ret'[p] = RetErr(ErrCancelled)

\* nothing but p's own frame changes
C4_OnlyCallerUnblocked(p) ==
    /\ UNCHANGED shared
    /\ \A q \in Procs \ {p} :
          pc'[q] = pc[q] /\ ch'[q] = ch[q] /\ ret'[q] = ret[q] /\ ctxDone'[q] = ctxDone[q]

\* the execution a caller waits on is still in the group
C4_FetchKeptForWaiters ==
    \A q \in Procs :
        Waiting(q) => ch[q].key \in DOMAIN sf /\ sf[ch[q].key].exec = ch[q].exec

\* a key leaves the group only with its result on the channel of every waiter
C4_OutcomeDelivered ==
    \A key \in DOMAIN sf :
        key \notin DOMAIN sf' =>
            /\ sf[key].phase = "returned"
            /\ \A q \in Procs :
                  (Waiting(q) /\ ch[q].key = key) =>
                      ch'[q].state = "full" /\ ch'[q].err = sf[key].err

\* C4: the cancellation of one waiting caller's context ends only that caller's
\* call, with Cancelled: the shared execution stays in the group, every other
\* caller keeps (or later takes) its place on it, and when the execution ends
\* its result is put on the channel of every caller still waiting.
C4_CancelUnblocksOnlyCaller ==
    /\ []C4_FetchKeptForWaiters
    /\ [][\A p \in Procs : CancelledStep(p) => C4_OnlyCallerUnblocked(p)]_vars
    /\ [][C4_OutcomeDelivered]_vars

\* p was cancelled while waiting on an execution and q, on the same execution,
\* has its result
C4_Witness ==
    \E p, q \in Procs :
        /\ p # q
        /\ Returned(p, RetErr(ErrCancelled))
        /\ op[q] = op[p] /\ CallKey(q) = CallKey(p)
        /\ Entered(p) /\ joined[q] = joined[p]
        /\ op[p] = "GetExtensionImage"
        /\ \/ ch[q].state = "full"
           \/ Returned(q, RetPath(CallKey(q)))

\* C5, state part: while the workspace stands, a Get that went to the
\* coordinator found its tag missing before any fetch of the tag had succeeded,
\* and a Get that found the tag directory returns the path of a kind the
\* installer holds.
C5_NoRefetchAfterSuccess ==
    \A p \in Procs :
        (op[p] = "Get" /\ Exists(storagePath)) =>
            /\ (pc[p] \in {"get_dochan", "get_select"} \/ Entered(p)) =>
                   \A i \in 1..seen[p] : Outcomes(CallKey(p))[i] # "ok"
            /\ (pc[p] = "done" /\ ~Entered(p) /\ ret[p].err \notin {ErrParse, ErrVersionTooOld}
                  /\ args[p].kind \in InstallerKinds) =>
                   ret[p] = RetPath(ArtifactPath(CallKey(p), args[p].arch, args[p].kind))

\* C5: a Get whose context is cancelled during the fetch it started returns
\* Cancelled and leaves the fetch running; once the fetch has succeeded, a Get
\* for the tag does not enter the coordinator and returns the path on disk.
C5_CancelledGetThenCachedGet ==
    /\ []C5_NoRefetchAfterSuccess
    /\ [][\A p \in Procs :
            (CancelledStep(p) /\ op[p] = "Get" /\ Waiting(p)) =>
                /\ sf' = sf /\ ch[p].key \in DOMAIN sf
                /\ UNCHANGED <<disk, fetchCalls, outcomes>>]_vars

C5_Witness ==
    \E p, q \in Procs :
        /\ op[p] = "Get" /\ Returned(p, RetErr(ErrCancelled)) /\ joined[p] = 1
        /\ Outcomes(CallKey(p)) = <<"ok">>
        /\ op[q] = "Get" /\ CallKey(q) = CallKey(p) /\ ~Entered(q)
        /\ Returned(q, RetPath(ArtifactPath(CallKey(q), args[q].arch, args[q].kind)))
        /\ Calls(CallKey(p)) = 1

\* the step in which p compares the timestamp it read with the clock
CheckStep(p) == pc[p] = "tv_check" /\ pc'[p] # "tv_check"

\* a caller at the coordinator read a snapshot that is stale
C6_OnlyStaleEnter ==
    \A p \in Procs :
        pc[p] \in {"tv_dochan", "tv_select"} =>
            now - loc[p].ts >= TalosVersionRecheckInterval

\* C6: a GetTalosVersions call whose snapshot is younger than the recheck
\* interval returns that snapshot at once: it does not enter the coordinator,
\* no fetch is started and nothing shared changes.
C6_FreshSnapshotReturned ==
    /\ []C6_OnlyStaleEnter
    /\ [][\A p \in Procs :
            (CheckStep(p) /\ now - loc[p].ts < TalosVersionRecheckInterval) =>
                /\ pc'[p] = "done"
                /\ ret'[p] = RetList(loc[p].list)
                /\ joined'[p] = 0
                /\ UNCHANGED shared]_vars

\* after one refresh, a second call returned the snapshot without a fetch
C6_Witness ==
    \E p \in Procs :
        /\ op[p] = "GetTalosVersions"
        /\ Returned(p, RetList(talosVersions))
        /\ talosVersions # <<>>
        /\ ~Entered(p)
        /\ Calls(TalosVersionsKey) = 1
        /\ ncalls = 2

\* C7: concurrent GetTalosVersions callers that read the snapshot stale at the
\* same point of the refresh history all wait on one execution of
\* fetchTalosVersions.
C7_OneRefreshForConcurrentCallers ==
    \A p, q \in Procs :
        (/\ op[p] = "GetTalosVersions" /\ op[q] = "GetTalosVersions"
         /\ Entered(p) /\ Entered(q)
         /\ seen[p] = seen[q])
        => joined[p] = joined[q]

\* the step in which the fetch function of a key returns an error
FailedReturn(key) ==
    Outcomes(key)' = Append(Outcomes(key), "err")
\* the step in which p's DoChan finds no call for the key in the group
DoChanMiss(p, from, to, key) ==
    pc[p] = from /\ pc'[p] = to /\ key \notin DOMAIN sf
\* that step starts an execution of the fetch function
FetchStarted(key) ==
    /\ Calls(key)' = Calls(key) + 1
    /\ key \in DOMAIN sf'
    /\ sf'[key].phase = "running"

C8_ErrorReturned ==
    \A p \in Procs :
        (op[p] = "GetTalosVersions" /\ ExecutionEnded(p, "err") /\ ReturnedUncancelled(p))
        => ret[p] = RetErr(ErrFetch(TalosVersionsKey, joined[p]))

\* C8: a failed refresh leaves the snapshot and its timestamp as they were
\* (they change only when a refresh returns without error), GetTalosVersions
\* returns the error of the refresh, and a call that reads a stale snapshot
\* goes to the coordinator and starts a refresh whenever none is in flight,
\* whatever failed before.
C8_FailedRefreshNotRemembered ==
    /\ []C8_ErrorReturned
    /\ [][FailedReturn(TalosVersionsKey) =>
            UNCHANGED <<talosVersions, talosVersionsTimestamp>>]_vars
    /\ [][(talosVersions' # talosVersions \/ talosVersionsTimestamp' # talosVersionsTimestamp)
            => Outcomes(TalosVersionsKey)' = Append(Outcomes(TalosVersionsKey), "ok")]_vars
    /\ [][\A p \in Procs :
            /\ (CheckStep(p) /\ now - loc[p].ts >= TalosVersionRecheckInterval)
                   => pc'[p] = "tv_dochan"
            /\ DoChanMiss(p, "tv_dochan", "tv_select", TalosVersionsKey)
                   => FetchStarted(TalosVersionsKey)]_vars

\* the first refresh failed, its caller has the error, the snapshot is
\* untouched and a second refresh is running
C8_Witness ==
    \E p \in Procs :
        /\ op[p] = "GetTalosVersions"
        /\ Returned(p, RetErr(ErrFetch(TalosVersionsKey, 1)))
        /\ Outcomes(TalosVersionsKey) = <<"err">>
        /\ talosVersions = <<>> /\ talosVersionsTimestamp = ZeroTime
        /\ Calls(TalosVersionsKey) = 2
        /\ TalosVersionsKey \in DOMAIN sf

\* C9: no execution of fetchOfficialExtensions for a tag is started once a
\* fetch of that tag's catalog has succeeded (the claim's "at most once per
\* tag" asks for no less).
C9_NoCatalogRefetchAfterSuccess ==
    \A key \in DOMAIN sf :
        sf[key].fn = "fetchOfficialExtensions" =>
            \A i \in 1..(sf[key].exec - 1) : Outcomes(key)[i] # "ok"

C10_NoEntryWithoutSuccess ==
    \A tag \in DOMAIN officialExtensions :
        \E i \in 1..Len(Outcomes(ExtensionsKey(tag))) : Outcomes(ExtensionsKey(tag))[i] = "ok"

C10_ErrorReturned ==
    \A p \in Procs :
        (op[p] = "GetOfficialExtensions" /\ ExecutionEnded(p, "err") /\ ReturnedUncancelled(p))
        => ret[p] = RetErr(ErrFetch(CallKey(p), joined[p]))

\* C10: a failed catalog fetch stores no entry (the map holds a tag only after
\* a fetch of it succeeded), GetOfficialExtensions returns the error of the
\* fetch, and a call that finds no entry goes to the coordinator and starts a
\* fetch whenever none is in flight, whatever failed before.
C10_FailedCatalogFetchNotRemembered ==
    /\ [](C10_NoEntryWithoutSuccess /\ C10_ErrorReturned)
    /\ [][(\E key \in DOMAIN sf : FailedReturn(key)) => UNCHANGED officialExtensions]_vars
    /\ [][\A p \in Procs :
            /\ (pc[p] = "ext_lookup" /\ pc'[p] # "ext_lookup"
                  /\ loc[p].tag \notin DOMAIN officialExtensions)
                   => pc'[p] = "ext_dochan"
            /\ DoChanMiss(p, "ext_dochan", "ext_select", ExtensionsKey(loc[p].tag))
                   => FetchStarted(ExtensionsKey(loc[p].tag))]_vars

\* the first fetch of a tag failed, its caller has the error, the map has no
\* entry and a second fetch of the tag is running
C10_Witness ==
    \E p \in Procs :
        /\ op[p] = "GetOfficialExtensions"
        /\ Returned(p, RetErr(ErrFetch(CallKey(p), 1)))
        /\ ExtensionsTag(args[p]) \notin DOMAIN officialExtensions
        /\ Calls(CallKey(p)) = 2
        /\ CallKey(p) \in DOMAIN sf

\* the executions of the fetch of a key that have not failed
Unfailed(key) ==
    Calls(key) - Cardinality({i \in 1..Len(Outcomes(key)) : Outcomes(key)[i] = "err"})

\* C11: two GetExtensionImage calls with different ExtensionRef names and the
\* same architecture and digest, sequential or concurrent, return the same
\* path, and one execution of fetchExtensionImage serves them both.
C11_OneExportPerDigest ==
    \A p, q \in Procs :
        (/\ op[p] = "GetExtensionImage" /\ op[q] = "GetExtensionImage"
         /\ args[p].arch = args[q].arch
         /\ args[p].ref.digest = args[q].ref.digest
         /\ args[p].ref.name # args[q].ref.name
         /\ pc[p] = "done" /\ ret[p].kind = "ok"
         /\ pc[q] = "done" /\ ret[q].kind = "ok")
        => /\ ret[p].path = ret[q].path
           /\ Unfailed(CallKey(p)) = 1

\* the operations whose wait returns result.Err
ErrorReturning == {"GetTalosVersions", "GetOfficialExtensions", "GetExtensionImage"}

\* the result on the channel of a caller is the result of its execution
C12_ChannelCarriesOutcome ==
    \A p \in Procs :
        ResultReady(p) =>
            /\ ExecutionEnded(p, IF ch[p].err = "" THEN "ok" ELSE "err")
            /\ ch[p].err \in {"", ErrFetch(ch[p].key, joined[p])}

\* C12: in GetTalosVersions, GetOfficialExtensions and GetExtensionImage, a
\* caller that waited on an execution that ended with an error, and was not
\* itself cancelled, returns exactly the error of that execution.
C12_WaitersReturnTheError ==
    /\ C12_ChannelCarriesOutcome
    /\ \A p \in Procs :
          (op[p] \in ErrorReturning /\ ExecutionEnded(p, "err") /\ ReturnedUncancelled(p))
          => ret[p] = RetErr(ErrFetch(CallKey(p), joined[p]))

\* two callers waited on one export that failed, and both have its error
C12_Witness ==
    \E p, q \in Procs :
        /\ p # q
        /\ op[p] = "GetExtensionImage" /\ op[q] = "GetExtensionImage"
        /\ joined[p] = 1 /\ joined[q] = 1
        /\ Calls(CallKey(p)) = 1 /\ CallKey(q) = CallKey(p)
        /\ Returned(p, RetErr(ErrFetch(CallKey(p), 1)))
        /\ Returned(q, RetErr(ErrFetch(CallKey(p), 1)))

\* the workspace is gone for good once it is removed, with all that was in it
C13_WorkspaceGone ==
    /\ (\E p \in Procs : closedAtCall[p]) => disk = {}
    /\ ~Exists(storagePath) => disk = {}

\* C13: a Get that is called after Close removed the workspace fails, whatever
\* its version, architecture and kind: it never returns a path.
C13_GetAfterCloseFails ==
    /\ C13_WorkspaceGone
    /\ \A p \in Procs :
          (op[p] = "Get" /\ closedAtCall[p]) =>
              /\ ret[p].kind # "ok"
              /\ pc[p] = "done" => ret[p].kind = "err"

\* a Get for a supported version, called after Close, went to the coordinator,
\* its fetch failed and the call returned an error
C13_Witness ==
    \E p \in Procs :
        /\ op[p] = "Get" /\ closedAtCall[p]
        /\ args[p].vs = VStr("", <<1, 6, 0>>) /\ args[p].kind \in InstallerKinds
        /\ Entered(p) /\ ExecutionEnded(p, "err")
        /\ pc[p] = "done" /\ ret[p].kind = "err"

\* the positions at the DoChan call of each operation
DoChans == {"get_dochan", "tv_dochan", "ext_dochan", "img_dochan"}
\* the step in which p calls DoChan
DoChanStep(p) == pc[p] \in DoChans /\ pc'[p] \in Selects

\* at most one execution of the fetch function of a key has started and not
\* returned, and it is the call the group holds for the key
C14_OneExecutionInFlight ==
    /\ \A key \in DOMAIN fetchCalls :
          /\ Calls(key) - Len(Outcomes(key)) \in {0, 1}
          /\ Calls(key) - Len(Outcomes(key)) = 1 =>
                 key \in DOMAIN sf /\ sf[key].phase = "running"
    /\ \A key \in DOMAIN sf :
          /\ sf[key].exec = Calls(key)
          /\ sf[key].phase = "returned" => Len(Outcomes(key)) = Calls(key)

\* a DoChan on a key in the group joins its call and starts nothing; a DoChan
\* on a key not in the group starts an execution, whatever ended before
C14_JoinOrStart ==
    \A p \in Procs :
        DoChanStep(p) =>
            IF CallKey(p) \in DOMAIN sf
            THEN /\ sf' = sf /\ fetchCalls' = fetchCalls
                 /\ joined'[p] = sf[CallKey(p)].exec
                 /\ ch'[p].exec = sf[CallKey(p)].exec
            ELSE /\ FetchStarted(CallKey(p))
                 /\ joined'[p] = Calls(CallKey(p)) + 1
                 /\ sf'[CallKey(p)].exec = Calls(CallKey(p)) + 1

\* a key leaves the group when its execution has returned, and in that step
\* every caller waiting on it receives the result of that execution
C14_ClearedOnCompletion ==
    \A key \in DOMAIN sf :
        key \notin DOMAIN sf' =>
            /\ sf[key].phase = "returned"
            /\ \A q \in Procs :
                  (Waiting(q) /\ ch[q].key = key) =>
                      /\ ch[q].exec = sf[key].exec
                      /\ ch'[q] = [ch[q] EXCEPT !.state = "full", !.err = sf[key].err]

\* C14: at most one execution of the producer is in flight per key; a caller
\* that enters with a key whose execution is in flight joins it and receives
\* its result; the key is cleared when the execution completes and the next
\* caller with the key starts a fresh execution, also after a failure.
C14_SingleExecutionPerKey ==
    /\ []C14_OneExecutionInFlight
    /\ [][C14_JoinOrStart]_vars
    /\ [][C14_ClearedOnCompletion]_vars

\* two Get callers entered with one tag, one execution ran, and its result is
\* on both channels
C14_Witness ==
    \E p, q \in Procs :
        /\ p # q
        /\ op[p] = "Get" /\ op[q] = "Get" /\ CallKey(p) = CallKey(q)
        /\ joined[p] = 1 /\ joined[q] = 1
        /\ Calls(CallKey(p)) = 1
        /\ ResultReady(p) /\ ResultReady(q)
        /\ ch[p].err = ch[q].err
        /\ CallKey(p) \notin DOMAIN sf

\* the positions between the first Unlock() and the second Lock() of
\* GetTalosVersions and of GetOfficialExtensions: the DoChan call and the wait
Unlocked == {"tv_check", "tv_dochan", "tv_select", "tv_relock",
             "ext_dochan", "ext_select", "ext_relock"}

\* C15: a caller at the wait (or anywhere between the critical sections) of
\* GetTalosVersions or GetOfficialExtensions holds neither mutex; a mutex is
\* held only by a caller inside a critical section, whose next step releases
\* it without waiting on anything.
C15_NoLockHeldWhileWaiting ==
    /\ \A p \in Procs :
          pc[p] \in Unlocked \cup Selects \cup DoChans =>
              talosVersionsMu # p /\ officialExtensionsMu # p
    /\ talosVersionsMu # 0 => pc[talosVersionsMu] \in {"tv_read", "tv_reread"}
    /\ officialExtensionsMu # 0 => pc[officialExtensionsMu] \in {"ext_lookup", "ext_reread"}

\* one caller waits on a refresh that has not returned while another caller
\* holds the snapshot mutex and reads
C15_Witness ==
    \E p, q \in Procs :
        /\ pc[p] = "tv_select" /\ Waiting(p)
        /\ Running(TalosVersionsKey, "fetchTalosVersions")
        /\ pc[q] = "tv_read" /\ talosVersionsMu = q

\* a successful GetOfficialExtensions returned the entry of its tag, and a
\* caller that was handed a successful result finds the entry installed
C16_SuccessIsTheEntry ==
    \A p \in Procs :
        op[p] = "GetOfficialExtensions" =>
            /\ (pc[p] = "done" /\ ret[p].kind = "ok") =>
                   /\ ExtensionsTag(args[p]) \in DOMAIN officialExtensions
                   /\ ret[p].list = officialExtensions[ExtensionsTag(args[p])]
            /\ ((ResultReady(p) /\ ch[p].err = "") \/ pc[p] \in {"ext_relock", "ext_reread"}) =>
                   ExtensionsTag(args[p]) \in DOMAIN officialExtensions

\* an entry of the map is never removed or changed
C16_EntriesStay ==
    \A tag \in DOMAIN officialExtensions :
        tag \in DOMAIN officialExtensions' /\ officialExtensions'[tag] = officialExtensions[tag]

\* a lookup that finds the entry returns it and goes nowhere near the coordinator
C16_LookupHit ==
    \A p \in Procs :
        (pc[p] = "ext_lookup" /\ pc'[p] # "ext_lookup"
           /\ loc[p].tag \in DOMAIN officialExtensions) =>
            /\ pc'[p] = "done"
            /\ ret'[p] = RetList(officialExtensions[loc[p].tag])
            /\ joined'[p] = 0
            /\ UNCHANGED <<sf, fetchCalls, officialExtensions>>

\* C16: when GetOfficialExtensions returns success for a tag, the map holds an
\* entry for the tag and the returned list is that entry (the fetch installed
\* it before the waiters were released); entries stay, so every call for the
\* tag that starts afterwards is a map hit and returns the entry.
C16_CatalogInstalledBeforeRelease ==
    /\ []C16_SuccessIsTheEntry
    /\ [][C16_EntriesStay]_vars
    /\ [][C16_LookupHit]_vars

\* one call fetched the catalog of a tag and returned it, a later call for the
\* tag returned the same list from the map
C16_Witness ==
    \E p, q \in Procs :
        /\ op[p] = "GetOfficialExtensions" /\ op[q] = "GetOfficialExtensions"
        /\ ExtensionsTag(args[p]) = "v1.6.0" /\ ExtensionsTag(args[q]) = "v1.6.0"
        /\ Entered(p) /\ Returned(p, RetList(CatalogOf("v1.6.0")))
        /\ ~Entered(q) /\ Returned(q, RetList(CatalogOf("v1.6.0")))
        /\ CatalogOf("v1.6.0") # <<>>
        /\ Calls(ExtensionsKey("v1.6.0")) = 1

\* storageRoot/tag/architecture/kind of a Get call, spelled out
C17_Path(p) ==
    storagePath \o "/v" \o VersionString(args[p].vs.nums) \o "/" \o args[p].arch
        \o "/" \o args[p].kind
\* storageRoot/tag of a Get call
C17_Dir(p) == storagePath \o "/v" \o VersionString(args[p].vs.nums)

\* the os.Stat of the tag directory finds it: no coordinator, no fetch
C17_DirectoryHit ==
    \A p \in Procs :
        (pc[p] = "get_stat" /\ pc'[p] # "get_stat" /\ C17_Dir(p) \in disk) =>
            /\ pc'[p] = "get_statfile"
            /\ joined'[p] = 0 /\ ch'[p] = NoChan
            /\ UNCHANGED shared

\* the os.Stat of the file decides between the path and NotFound
C17_FileDecides ==
    \A p \in Procs :
        (pc[p] = "get_statfile" /\ pc'[p] # "get_statfile") =>
            /\ pc'[p] = "done"
            /\ ret'[p] = IF C17_Path(p) \in disk THEN RetPath(C17_Path(p))
                                                 ELSE RetErr(ErrNotFound)

\* a Get that returned a path returned storageRoot/tag/architecture/kind
C17_PathReturned ==
    \A p \in Procs :
        (op[p] = "Get" /\ pc[p] = "done" /\ ret[p].kind = "ok") => ret[p].path = C17_Path(p)

\* C17: when the tag directory exists Get does not enter the coordinator and
\* starts no fetch; the file architecture/kind under the directory, pre-existing
\* or freshly fetched, decides the result: NotFound when it is absent, the path
\* storageRoot/tag/architecture/kind when it exists.
C17_DirectoryIsTheCacheHit ==
    /\ []C17_PathReturned
    /\ [][C17_DirectoryHit]_vars
    /\ [][C17_FileDecides]_vars

\* the tag directory was there from an earlier fetch, a Get for a kind the
\* installer does not hold never entered the coordinator and failed NotFound
C17_Witness ==
    \E p \in Procs :
        /\ op[p] = "Get" /\ ~Entered(p)
        /\ Returned(p, RetErr(ErrNotFound))
        /\ C17_Dir(p) \in disk /\ C17_Path(p) \notin disk
        /\ Calls(CallKey(p)) = 1

\* the fetch function each operation hands to the coordinator
FnOf(o) ==
    CASE o = "Get" -> "fetchImager"
      [] o = "GetTalosVersions" -> "fetchTalosVersions"
      [] o = "GetOfficialExtensions" -> "fetchOfficialExtensions"
      [] o = "GetExtensionImage" -> "fetchExtensionImage"
      [] OTHER -> ""

\* the keys of each cache domain, over all the arguments the callers use
InstallerKeys ==
    {GetTag(a) : a \in {b \in GetArgs \cup GateGetArgs \cup WaitGetArgs : Parse(b.vs).ok}}
CatalogKeys ==
    {ExtensionsKey(ExtensionsTag(a)) :
        a \in {b \in ExtensionsArgs \cup GateExtensionsArgs \cup WaitExtensionsArgs :
                  ParseTolerant(b.vs).ok}}
ImageKeys == {TarballPath(a.arch, a.ref) : a \in ImageArgs \cup WaitImageArgs}
VersionListKeys == {TalosVersionsKey}

\* the call of p is at or past its DoChan
AtCoordinator(p) == pc[p] \in DoChans \cup Selects \/ Entered(p)

\* C18: the keys of the four cache domains are pairwise different, so callers of
\* different operations never have the same key, and the execution a caller
\* waits on (or joins) was started by its own operation and runs its own fetch
\* function.
C18_DomainsNeverShareAKey ==
    /\ InstallerKeys \cap VersionListKeys = {} /\ InstallerKeys \cap CatalogKeys = {}
    /\ InstallerKeys \cap ImageKeys = {} /\ VersionListKeys \cap CatalogKeys = {}
    /\ VersionListKeys \cap ImageKeys = {} /\ CatalogKeys \cap ImageKeys = {}
    /\ \A p, q \in Procs :
          (AtCoordinator(p) /\ AtCoordinator(q) /\ op[p] # op[q]) => CallKey(p) # CallKey(q)
    /\ \A p \in Procs :
          /\ (pc[p] \in DoChans /\ CallKey(p) \in DOMAIN sf) => sf[CallKey(p)].fn = FnOf(op[p])
          /\ Waiting(p) => ch[p].key \in DOMAIN sf /\ sf[ch[p].key].fn = FnOf(op[p])
          /\ ch[p].key # "" => ch[p].key = CallKey(p)

\* a Get and a GetOfficialExtensions for the same version wait at the same
\* time, each on an execution of its own
C18_Witness ==
    \E p, q \in Procs :
        /\ op[p] = "Get" /\ op[q] = "GetOfficialExtensions"
        /\ GetTag(args[p]) = ExtensionsTag(args[q])
        /\ pc[p] = "get_select" /\ Waiting(p)
        /\ pc[q] = "ext_select" /\ Waiting(q)
        /\ sf[ch[p].key].fn = "fetchImager"
        /\ sf[ch[q].key].fn = "fetchOfficialExtensions"

\* p waits, with a live context, on a fetch that has not returned
WaitsOnRunningFetch(p) ==
    /\ pc[p] \in Selects /\ Waiting(p) /\ ~ctxDone[p]
    /\ ch[p].key \in DOMAIN sf /\ sf[ch[p].key].phase = "running"

\* C19: every call returns, provided the caller is not left forever waiting,
\* with a live context, on a fetch that never returns (the fetch it waits on
\* eventually completes, or its context is eventually cancelled).
C19_EveryCallReturns ==
    \A p \in Procs :
        []<>(~WaitsOnRunningFetch(p)) => (InCall(p) ~> pc[p] = "done")

\* two callers waited on one refresh; one was cancelled, the other returned
\* the refreshed list
C19_Witness ==
    \E p, q \in Procs :
        /\ p # q
        /\ op[p] = "GetTalosVersions" /\ op[q] = "GetTalosVersions"
        /\ joined[p] = 1 /\ joined[q] = 1
        /\ Returned(p, RetErr(ErrCancelled))
        /\ Returned(q, RetList(talosVersions)) /\ talosVersions # <<>>

\* p leaves the position where it stands
Leaves(p, at) == pc[p] = at /\ pc'[p] # at

\* with the context already cancelled, each cache check that hits gives the
\* normal result
C20_HitIgnoresContext ==
    \A p \in Procs :
        ctxDone[p] =>
            /\ (Leaves(p, "get_stat") /\ Exists(Join(storagePath, loc[p].tag)))
                   => pc'[p] = "get_statfile"
            /\ (Leaves(p, "get_statfile")
                  /\ Exists(ArtifactPath(loc[p].tag, args[p].arch, args[p].kind)))
                   => /\ pc'[p] = "done"
                      /\ ret'[p] = RetPath(ArtifactPath(loc[p].tag, args[p].arch, args[p].kind))
            /\ (Leaves(p, "img_stat") /\ Exists(loc[p].tag))
                   => pc'[p] = "done" /\ ret'[p] = RetPath(loc[p].tag)
            /\ (Leaves(p, "tv_check") /\ now - loc[p].ts < TalosVersionRecheckInterval)
                   => pc'[p] = "done" /\ ret'[p] = RetList(loc[p].list)
            /\ (Leaves(p, "ext_lookup") /\ loc[p].tag \in DOMAIN officialExtensions)
                   => pc'[p] = "done" /\ ret'[p] = RetList(officialExtensions[loc[p].tag])

\* with the context already cancelled, a miss still goes to DoChan, and DoChan
\* still starts or joins the execution of the key
C20_MissStillEnters ==
    \A p \in Procs :
        ctxDone[p] =>
            /\ (Leaves(p, "get_stat") /\ ~Exists(Join(storagePath, loc[p].tag)))
                   => pc'[p] = "get_dochan"
            /\ (Leaves(p, "img_stat") /\ ~Exists(loc[p].tag)) => pc'[p] = "img_dochan"
            /\ (Leaves(p, "tv_check") /\ now - loc[p].ts >= TalosVersionRecheckInterval)
                   => pc'[p] = "tv_dochan"
            /\ (Leaves(p, "ext_lookup") /\ loc[p].tag \notin DOMAIN officialExtensions)
                   => pc'[p] = "ext_dochan"
            /\ (pc[p] \in DoChans /\ pc'[p] # pc[p])
                   => /\ pc'[p] \in Selects
                      /\ joined'[p] # 0
                      /\ CallKey(p) \in DOMAIN sf'
                      /\ Calls(CallKey(p))' = IF CallKey(p) \in DOMAIN sf
                                               THEN Calls(CallKey(p))
                                               ELSE Calls(CallKey(p)) + 1

\* Cancelled is returned from the wait only
C20_CancelledFromTheWait ==
    \A p \in Procs :
        (pc'[p] = "done" /\ ret'[p] = RetErr(ErrCancelled) /\ ret[p] # ret'[p]) =>
            pc[p] \in Selects /\ ctxDone[p] /\ Entered(p)

\* C20: the context is consulted only in the wait on a coordinated fetch: on a
\* cache hit the operation returns its normal result though the context is
\* already cancelled, and on a miss a caller with a cancelled context still
\* starts or joins the fetch; only then can it return Cancelled.
C20_ContextOnlyInTheWait ==
    /\ [](\A p \in Procs : Returned(p, RetErr(ErrCancelled)) => Entered(p))
    /\ [][C20_HitIgnoresContext]_vars
    /\ [][C20_MissStillEnters]_vars
    /\ [][C20_CancelledFromTheWait]_vars

\* a Get with a cancelled context found the tag directory of an earlier fetch,
\* did not enter the coordinator and stands before the os.Stat of the file
C20_Witness ==
    \E p \in Procs :
        /\ op[p] = "Get" /\ pc[p] = "get_statfile"
        /\ ctxDone[p] /\ ~Entered(p)
        /\ Exists(ArtifactPath(loc[p].tag, args[p].arch, args[p].kind))
        /\ Calls(CallKey(p)) = 1 /\ ncalls = 2

====
